---- MODULE Spec2Model ----
(***************************************************************************)
(* Two chess peers (a server and a client) of arjon-chess-gui, each        *)
(* running Game (src/main.rs) over one TCP stream (src/network.rs).        *)
(*                                                                         *)
(* The chess engine (crate jonathan_hallstrom_chess) is an external        *)
(* oracle.  It is modelled by a small engine over the same 8x8 board in    *)
(* which only pawns move: one square forward onto an empty square, with    *)
(* the four promotion choices on the last rank.  A game starts from one of *)
(* two late positions, one in which White's pawn promotes and one in which *)
(* Black's does.  That keeps every shape of move the GUI distinguishes:    *)
(* plain moves (one candidate for a from/to pair) and promotions (four     *)
(* candidates for a from/to pair), on either last rank.                    *)
(*                                                                         *)
(* serde_json::to_writer / from_reader are modelled at message level: a    *)
(* write appends one record to the peer's stream, a read takes the oldest  *)
(* record and succeeds when it has the type the reader asks for.  What     *)
(* from_reader does after the value (it looks for the end of the input)    *)
(* is not modelled.                                                        *)
(*                                                                         *)
(* Three specifications: Spec (both peers run this program), CodecSpec     *)
(* (one conversion function is called on one argument) and                 *)
(* OtherServerSpec (the client runs this program against a server that     *)
(* also writes the Error, Resigned and Draw records of the protocol).      *)
(***************************************************************************)
EXTENDS Integers, Sequences, FiniteSets, TLC

(***************************************************************************)
(* Bounds                                                                  *)
(***************************************************************************)
\* Plain pawn steps each side has before its pawn stands in front of the
\* promotion rank.
PlainSteps == 1

(***************************************************************************)
(* Characters                                                              *)
(***************************************************************************)
FileChars  == <<"a", "b", "c", "d", "e", "f", "g", "h">>
DigitChars == <<"1", "2", "3", "4", "5", "6", "7", "8", "9">>
UpperPieceChars == <<"P", "B", "R", "N", "Q", "K">>
LowerPieceChars == <<"p", "b", "r", "n", "q", "k">>

IsIn(seq, c) == \E i \in 1..Len(seq) : seq[i] = c
IndexOf(seq, c) == CHOOSE i \in 1..Len(seq) : seq[i] = c

\* `c as usize` for the characters the program meets.
Ord(c) ==
    IF IsIn(FileChars, c) THEN 96 + IndexOf(FileChars, c)
    ELSE IF IsIn(DigitChars, c) THEN 48 + IndexOf(DigitChars, c)
    ELSE IF IsIn(UpperPieceChars, c) THEN 1000 + IndexOf(UpperPieceChars, c)
    ELSE 2000

is_numeric(c) == IsIn(DigitChars, c) \/ c = "0"
is_uppercase(c) == IsIn(UpperPieceChars, c)
is_alphanumeric(c) ==
    \/ is_numeric(c)
    \/ IsIn(FileChars, c)
    \/ IsIn(UpperPieceChars, c)
    \/ IsIn(LowerPieceChars, c)
    \/ c \in {"w"}
to_digit(c) == IF c = "0" THEN 0 ELSE IndexOf(DigitChars, c)
to_lowercase(c) ==
    IF IsIn(UpperPieceChars, c) THEN LowerPieceChars[IndexOf(UpperPieceChars, c)]
    ELSE c

Idx == 0..7
White == "White"
Black == "Black"
Colors == {White, Black}

(***************************************************************************)
(* The engine oracle: jonathan_hallstrom_chess::{Board, Move}              *)
(***************************************************************************)
\* An engine position: grid[r][c] is a FEN piece letter or "." (empty);
\* row 0 is rank 8, the first row of the FEN export.
EmptyGrid == [r \in Idx |-> [c \in Idx |-> "."]]

\* Board::default(), White to move.  The pawn of color `promoting` stands
\* PlainSteps squares in front of the square it promotes from; the other pawn
\* stands on its home rank.
BoardDefault(promoting) ==
    [grid |-> IF promoting = White
              THEN [EmptyGrid EXCEPT ![1 + PlainSteps][0] = "P", ![1][7] = "p"]
              ELSE [EmptyGrid EXCEPT ![6][0] = "P", ![6 - PlainSteps][7] = "p"],
     turn |-> White]

PromotionTypes == <<"Queen", "Knight", "Rook", "Bishop">>

EngineMove(from, to, promoted, color) ==
    [from |-> from, to |-> to, promoted |-> promoted, color |-> color]

\* The moves of the piece on (r, c), in the engine's order.
SquareMoves(pos, r, c) ==
    LET ch == pos.grid[r][c]
        mine == \/ (ch = "P" /\ pos.turn = White)
                \/ (ch = "p" /\ pos.turn = Black)
        tr == IF pos.turn = White THEN r - 1 ELSE r + 1
    IN  IF ~mine \/ tr \notin Idx THEN <<>>
        ELSE IF pos.grid[tr][c] # "." THEN <<>>
        ELSE IF tr = 0 \/ tr = 7
             THEN [i \in 1..4 |->
                     EngineMove(<<r, c>>, <<tr, c>>, PromotionTypes[i], pos.turn)]
             ELSE <<EngineMove(<<r, c>>, <<tr, c>>, "None", pos.turn)>>

RECURSIVE RowMovesFrom(_, _, _)
RowMovesFrom(pos, r, c) ==
    IF c = 8 THEN <<>>
    ELSE SquareMoves(pos, r, c) \o RowMovesFrom(pos, r, c + 1)

RECURSIVE LegalMovesFrom(_, _)
LegalMovesFrom(pos, r) ==
    IF r = 8 THEN <<>>
    ELSE RowMovesFrom(pos, r, 0) \o LegalMovesFrom(pos, r + 1)

\* Board::get_legal_moves
get_legal_moves(pos) == LegalMovesFrom(pos, 0)

\* Board::get_curr_player
get_curr_player(pos) == pos.turn

\* Move::get_promoted_type  (Option<PieceType>)
get_promoted_type(mv) == mv.promoted

PromotionLetter(mv) ==
    LET l == CASE mv.promoted = "Queen"  -> "q"
               [] mv.promoted = "Knight" -> "n"
               [] mv.promoted = "Rook"   -> "r"
               [] mv.promoted = "Bishop" -> "b"
    IN  IF mv.color = White THEN UpperPieceChars[IndexOf(LowerPieceChars, l)] ELSE l

\* Move::to_algebraic_notation: <from-file><from-rank><to-file><to-rank>[letter],
\* the letter uppercase for White and lowercase for Black.
to_algebraic_notation(mv) ==
    <<FileChars[mv.from[2] + 1], DigitChars[8 - mv.from[1]],
      FileChars[mv.to[2] + 1], DigitChars[8 - mv.to[1]]>>
    \o (IF mv.promoted = "None" THEN <<>> ELSE <<PromotionLetter(mv)>>)

IsLegal(pos, mv) ==
    \E i \in 1..Len(get_legal_moves(pos)) : get_legal_moves(pos)[i] = mv

\* Board::play_move: Ok(new position), or Err for a move that is not legal.
EnginePlayMove(pos, mv) ==
    IF ~IsLegal(pos, mv) THEN [ok |-> FALSE, board |-> pos]
    ELSE LET piece == IF mv.promoted = "None"
                      THEN pos.grid[mv.from[1]][mv.from[2]]
                      ELSE PromotionLetter(mv)
             g1 == [pos.grid EXCEPT ![mv.from[1]][mv.from[2]] = "."]
             g2 == [g1 EXCEPT ![mv.to[1]][mv.to[2]] = piece]
         IN  [ok |-> TRUE,
              board |-> [grid |-> g2,
                         turn |-> IF pos.turn = White THEN Black ELSE White]]

RECURSIVE RowFen(_, _, _)
RowFen(row, c, run) ==
    LET flush == IF run > 0 THEN <<DigitChars[run]>> ELSE <<>>
    IN  IF c = 8 THEN flush
        ELSE IF row[c] = "." THEN RowFen(row, c + 1, run + 1)
        ELSE flush \o <<row[c]>> \o RowFen(row, c + 1, 0)

RECURSIVE GridFen(_, _)
GridFen(grid, r) ==
    RowFen(grid[r], 0, 0)
    \o (IF r = 7 THEN <<>> ELSE <<"/">> \o GridFen(grid, r + 1))

\* Board::to_fen: the placement field, a space and the side to move.
to_fen(pos) ==
    GridFen(pos.grid, 0) \o <<" ", IF pos.turn = White THEN "w" ELSE "b">>

(***************************************************************************)
(* src/main.rs: Square, parse_fen, to_cordinate, parse_move, parse_moves   *)
(***************************************************************************)
Empty == [kind |-> "Empty", color |-> "None"]
Piece(kind, color) == [kind |-> kind, color |-> color]

\* Square::color  (Option<Color>)
SquareColor(sq) == sq.color

EmptySquares == [r \in Idx |-> [c \in Idx |-> Empty]]

\* The body of parse_fen's two loops; i is the iterator's position.  A failed
\* unwrap or assertion ends in ok = FALSE.
RECURSIVE parse_fen_loop(_, _, _, _, _)
parse_fen_loop(fen, i, row, col, board) ==
    IF row >= 8 THEN [ok |-> TRUE, squares |-> board]
    ELSE IF i > Len(fen) THEN [ok |-> FALSE, squares |-> board]
    ELSE LET c == fen[i] IN
        IF col < 8 THEN
            IF c = "/" \/ ~is_alphanumeric(c) THEN [ok |-> FALSE, squares |-> board]
            ELSE IF is_numeric(c)
                 THEN parse_fen_loop(fen, i + 1, row, col + to_digit(c), board)
            ELSE LET color == IF is_uppercase(c) THEN White ELSE Black
                     l == to_lowercase(c)
                     sq == CASE l = "p" -> Piece("Pawn", color)
                             [] l = "b" -> Piece("Bishop", color)
                             [] l = "r" -> Piece("Rook", color)
                             [] l = "n" -> Piece("Knight", color)
                             [] l = "q" -> Piece("Queen", color)
                             [] OTHER   -> Piece("King", color)
                 IN  parse_fen_loop(fen, i + 1, row, col + 1,
                                    [board EXCEPT ![row][col] = sq])
        ELSE IF (c = "/" /\ row < 7) \/ (c = " " /\ row = 7)
             THEN parse_fen_loop(fen, i + 1, row + 1, 0, board)
             ELSE [ok |-> FALSE, squares |-> board]

parse_fen(fen) == parse_fen_loop(fen, 1, 0, 0, EmptySquares)

\* to_cordinate without the inversion of the rank digits.
to_cordinate_unflipped(c) ==
    IF Ord(c) >= Ord("a") /\ Ord(c) <= Ord("h")
    THEN Ord(c) - Ord("a")
    ELSE Ord(c) - Ord("1")

to_cordinate(c) ==
    IF Ord(c) >= Ord("a") /\ Ord(c) <= Ord("h")
    THEN Ord(c) - Ord("a")
    ELSE 7 - (Ord(c) - Ord("1"))

\* ((row, col) of the start, (row, col) of the end); x is 0-based in the
\* source, 1-based here.
parse_move(mv) ==
    <<<<to_cordinate(mv[2]), to_cordinate(mv[1])>>,
      <<to_cordinate(mv[4]), to_cordinate(mv[3])>>>>

EmptyIndex == [r \in Idx |-> [c \in Idx |-> <<>>]]

\* insert(to, vec![mv]) in place of entry(to).or_insert_with(Vec::new).push(mv).
HashMapInsert(map, key, mv) ==
    [k \in (DOMAIN map) \cup {key} |-> IF k = key THEN <<mv>> ELSE map[k]]

\* A HashMap<(usize, usize), Vec<Move>> is a function from its keys.
HashMapPush(map, key, mv) ==
    IF key \in DOMAIN map
    THEN [map EXCEPT ![key] = Append(@, mv)]
    ELSE [k \in (DOMAIN map) \cup {key} |->
             IF k = key THEN <<mv>> ELSE map[k]]

RECURSIVE parse_moves_loop(_, _, _)
parse_moves_loop(moves, i, parsed) ==
    IF i > Len(moves) THEN parsed
    ELSE LET ft == parse_move(to_algebraic_notation(moves[i]))
             from == ft[1]
             to == ft[2]
         IN  parse_moves_loop(moves, i + 1,
                 [parsed EXCEPT ![from[1]][from[2]] = HashMapPush(@, to, moves[i])])

parse_moves(moves) == parse_moves_loop(moves, 1, EmptyIndex)


(***************************************************************************)
(* src/network.rs: the wire forms                                          *)
(***************************************************************************)
internal_to_network_piece(internal) ==
    CASE internal.kind = "Empty"  -> "None"
      [] internal.kind = "Pawn"   ->
            IF internal.color = White THEN "WhitePawn" ELSE "BlackPawn"
      [] internal.kind = "Rook"   ->
            IF internal.color = White THEN "WhiteRook" ELSE "BlackRook"
      [] internal.kind = "Bishop" ->
            IF internal.color = White THEN "WhiteBishop" ELSE "BlackBishop"
      [] internal.kind = "Knight" ->
            IF internal.color = White THEN "WhiteKnight" ELSE "BlackKnight"
      [] internal.kind = "King"   ->
            IF internal.color = White THEN "WhiteKing" ELSE "BlackKing"
      [] internal.kind = "Queen"  ->
            IF internal.color = White THEN "WhiteQueen" ELSE "BlackQueen"

\* board[row][col] = ..., without the flip.
internal_to_network_board_unflipped(internal) ==
    [wrow \in Idx |-> [col \in Idx |->
        internal_to_network_piece(internal[wrow][col])]]

\* board[7 - row][col] = internal_to_network_piece(internal[row][col])
internal_to_network_board(internal) ==
    [wrow \in Idx |-> [col \in Idx |->
        internal_to_network_piece(internal[7 - wrow][col])]]

\* The promotion match with the color of the letter ignored.
promotion_of_letter_any_case(c) ==
    CASE to_lowercase(c) = "r" -> "WhiteRook"
      [] to_lowercase(c) = "b" -> "WhiteBishop"
      [] to_lowercase(c) = "n" -> "WhiteKnight"
      [] to_lowercase(c) = "q" -> "WhiteQueen"
      [] OTHER   -> "panic"

\* The promotion match of internal_to_network_move; "panic" stands for
\* panic!("Invalid promotion piece").
promotion_of_letter(c) ==
    CASE c = "R" -> "WhiteRook"
      [] c = "r" -> "BlackRook"
      [] c = "B" -> "WhiteBishop"
      [] c = "b" -> "BlackBishop"
      [] c = "N" -> "WhiteKnight"
      [] c = "n" -> "BlackKnight"
      [] c = "Q" -> "WhiteQueen"
      [] c = "q" -> "BlackQueen"
      [] OTHER   -> "panic"

\* internal_to_network_move on the notation of the move.  The pattern
\* ((start_x, mut start_y), (end_x, mut end_y)) binds the first component of
\* each pair parse_move returns to x and the second to y.
notation_to_network_move(notation) ==
    LET parsed == parse_move(notation)
        start_x == parsed[1][1]
        start_y == 7 - parsed[1][2]
        end_x == parsed[2][1]
        end_y == 7 - parsed[2][2]
        promotion == IF Len(notation) = 5
                     THEN promotion_of_letter(notation[Len(notation)])
                     ELSE "None"
    IN  [start_x |-> start_x, start_y |-> start_y,
         end_x |-> end_x, end_y |-> end_y, promotion |-> promotion]

internal_to_network_move(internal) ==
    notation_to_network_move(to_algebraic_notation(internal))

network_move_panics(internal) ==
    internal_to_network_move(internal).promotion = "panic"

internal_to_network_moves(internal) ==
    [i \in 1..Len(internal) |-> internal_to_network_move(internal[i])]

internal_to_server_handshake(squares_, board_) ==
    [type |-> "ServerToClientHandshake",
     board |-> internal_to_network_board(squares_),
     features |-> <<"EnPassant", "Promotion">>,
     joever |-> "White",
     moves |-> internal_to_network_moves(get_legal_moves(board_))]

ClientToServerHandshake(color) ==
    [type |-> "ClientToServerHandshake", server_color |-> color]

\* chess_network_protocol::ServerToClient::State
StateMessage(board_, moves, joever, move_made) ==
    [type |-> "State", board |-> board_, moves |-> moves,
     joever |-> joever, move_made |-> move_made]

\* chess_network_protocol::ClientToServer::Move
MoveMessage(mv) == [type |-> "Move", move |-> mv]

\* The variants of chess_network_protocol::ServerToClient.
ServerToClientVariants == {"State", "Error", "Resigned", "Draw"}

(***************************************************************************)
(* State                                                                   *)
(***************************************************************************)
Server == "server"
Client == "client"
Peers == {Server, Client}
Other(p) == IF p = Server THEN Client ELSE Server

\* Option::None for selected_from / selected_to; Some((row, col)) is <<row, col>>.
None == <<>>

VARIABLES
    pc,              \* where each process is: in handshake(), in the event loop, or dead
    board,           \* Game.board of each peer
    squares,         \* Game.board_repr.squares
    legal_moves,     \* Game.board_repr.legal_moves
    selected_from,   \* Game.board_repr.selected_from
    selected_to,     \* Game.board_repr.selected_to
    is_server,       \* Network.is_server
    player_color,    \* Network.player_color
    nonblocking,     \* whether the peer's stream is in non-blocking mode
    stream,          \* stream[p]: the records written to p and not yet read by p
    server_color,    \* the server_color argument of the client's Game::new
    last,            \* the last handshake step or handler run that read a record,
                     \* played a move, wrote a record or panicked, and what it did
    call             \* a call of one of the conversion functions on its own:
                     \* the function, its argument, and its result once returned

vars == <<pc, board, squares, legal_moves, selected_from, selected_to,
          is_server, player_color, nonblocking, stream, server_color, last, call>>

NoMessage == [type |-> "None"]

Last(peer, op, read, moved, sent) ==
    [peer |-> peer, op |-> op, read |-> read, moved |-> moved, sent |-> sent]

(***************************************************************************)
(* Game's methods, on the fields of one peer.  g.sent collects the records *)
(* the handler has written, g.moved the engine moves it has played, and    *)
(* g.panicked tells that it has ended in a panic.                          *)
(***************************************************************************)
GameOf(p) ==
    [board |-> board[p], squares |-> squares[p], legal_moves |-> legal_moves[p],
     selected_from |-> selected_from[p], selected_to |-> selected_to[p],
     sent |-> <<>>, moved |-> <<>>, panicked |-> FALSE]

Panic(g) == [g EXCEPT !.panicked = TRUE]

\* BoardRepr::new
BoardReprNew(board_) ==
    [squares |-> parse_fen(to_fen(board_)).squares,
     legal_moves |-> parse_moves(get_legal_moves(board_)),
     selected_from |-> None,
     selected_to |-> None]

\* refresh_board without the line that rebuilds legal_moves.
refresh_board_partial(g) ==
    IF g.panicked THEN g
    ELSE LET parsed == parse_fen(to_fen(g.board))
         IN  IF ~parsed.ok THEN Panic(g)
             ELSE [g EXCEPT !.squares = parsed.squares,
                            !.selected_from = None,
                            !.selected_to = None]

\* refresh_board without the two lines that clear the selection.
refresh_board_keep_selection(g) ==
    IF g.panicked THEN g
    ELSE LET parsed == parse_fen(to_fen(g.board))
         IN  IF ~parsed.ok THEN Panic(g)
             ELSE [g EXCEPT !.legal_moves = parse_moves(get_legal_moves(g.board)),
                            !.squares = parsed.squares]

\* Game::refresh_board
refresh_board(g) ==
    IF g.panicked THEN g
    ELSE LET parsed == parse_fen(to_fen(g.board))
         IN  IF ~parsed.ok THEN Panic(g)
             ELSE [g EXCEPT !.legal_moves = parse_moves(get_legal_moves(g.board)),
                            !.squares = parsed.squares,
                            !.selected_from = None,
                            !.selected_to = None]

\* self.board.play_move(mv).unwrap()
board_play_move(g, mv) ==
    IF g.panicked THEN g
    ELSE LET r == EnginePlayMove(g.board, mv)
         IN  IF ~r.ok THEN Panic(g)
             ELSE [g EXCEPT !.board = r.board, !.moved = Append(@, mv)]

\* serde_json::to_writer(&self.network.stream, &message).unwrap()
to_writer(g, message) ==
    IF g.panicked THEN g ELSE [g EXCEPT !.sent = Append(@, message)]

\* FirstMatch comparing the four coordinates and not the promotion field.
FirstMatchCoordinates(legal, opponent_move) ==
    LET Same(i) ==
            LET w == internal_to_network_move(legal[i])
            IN  /\ w.start_x = opponent_move.start_x
                /\ w.start_y = opponent_move.start_y
                /\ w.end_x = opponent_move.end_x
                /\ w.end_y = opponent_move.end_y
    IN  IF \E i \in 1..Len(legal) : Same(i)
        THEN CHOOSE i \in 1..Len(legal) :
                Same(i) /\ \A j \in 1..(i - 1) : ~Same(j)
        ELSE 0

\* The loop of server_play_move: the first legal move, in list order, whose
\* wire form is opponent_move; 0 when there is none.
FirstMatch(legal, opponent_move) ==
    IF \E i \in 1..Len(legal) : internal_to_network_move(legal[i]) = opponent_move
    THEN CHOOSE i \in 1..Len(legal) :
            /\ internal_to_network_move(legal[i]) = opponent_move
            /\ \A j \in 1..(i - 1) : internal_to_network_move(legal[j]) # opponent_move
    ELSE 0

\* Game::server_play_move
server_play_move(g, opponent_move) ==
    IF g.panicked THEN g
    ELSE LET legal == get_legal_moves(g.board)
             i == FirstMatch(legal, opponent_move)
         IN  IF i = 0 THEN Panic(g)
             ELSE refresh_board(board_play_move(g, legal[i]))

\* Game::play_move
play_move(g, is_server_, player_move) ==
    LET g1 == refresh_board(board_play_move(g, player_move))
    IN  IF is_server_
        THEN to_writer(g1,
                 StateMessage(internal_to_network_board(g1.squares),
                              internal_to_network_moves(get_legal_moves(g1.board)),
                              "Ongoing",
                              internal_to_network_move(player_move)))
        ELSE to_writer(g1, MoveMessage(internal_to_network_move(player_move)))

\* Network::get_board_state on the oldest record of the stream: Some(state)
\* when it deserializes as a ServerToClient, None otherwise.
get_board_state(message) ==
    IF message.type \in ServerToClientVariants THEN message ELSE NoMessage

\* Network::get_board_state on a stream: None when the non-blocking read
\* finds no data (from_reader's Err), otherwise as for the oldest record.
get_board_state_from(stream_) ==
    IF stream_ = <<>> THEN NoMessage ELSE get_board_state(Head(stream_))

\* update with get_board_state().unwrap() in place of if let Some(state).
update_unwrap(g, state) ==
    IF state.type = "State"
    THEN refresh_board(server_play_move(g, state.move_made))
    ELSE IF state.type = "None" THEN Panic(g)
    ELSE g

\* EventHandler::update, state being what get_board_state returned.
update(g, state) ==
    IF state.type = "State"
    THEN refresh_board(server_play_move(g, state.move_made))
    ELSE g

Abs(x) == IF x < 0 THEN -x ELSE x

\* The match on drow with the arms for 1 and 2 exchanged.
promotion_piece_of_swapped(drow) ==
    CASE drow = 0 -> "Queen"
      [] drow = 1 -> "Rook"
      [] drow = 2 -> "Knight"
      [] drow = 3 -> "Bishop"
      [] OTHER    -> "panic"

\* The match on drow in the promotion branch.
promotion_piece_of(drow) ==
    CASE drow = 0 -> "Queen"
      [] drow = 1 -> "Knight"
      [] drow = 2 -> "Rook"
      [] drow = 3 -> "Bishop"
      [] OTHER    -> "panic"

\* The loop over the candidates of the promotion branch: the index of the
\* first candidate whose promoted type is promotion_piece, 0 when the loop ends
\* without one, -1 when get_promoted_type().unwrap() meets a move that is no
\* promotion before it.
FindPromotion(candidates, promotion_piece) ==
    LET hits == {i \in 1..Len(candidates) :
                    get_promoted_type(candidates[i]) = promotion_piece}
        bad == {i \in 1..Len(candidates) :
                    get_promoted_type(candidates[i]) = "None"}
        Min(S) == CHOOSE x \in S : \A y \in S : x <= y
    IN  IF hits = {} THEN (IF bad = {} THEN 0 ELSE -1)
        ELSE IF bad # {} /\ Min(bad) < Min(hits) THEN -1
        ELSE Min(hits)

\* EventHandler::mouse_button_down_event, (row, col) being the square clicked.
mouse_button_down_event(g, is_server_, row, col) ==
    LET prev == IF g.selected_from = None THEN <<0, 0>> ELSE g.selected_from
        cords == <<row, col>>
        to == g.selected_to
        from_map == g.legal_moves[prev[1]][prev[2]]
    IN  IF to # None THEN
            IF col = to[2] /\ ((to[1] = 0 /\ row < 4) \/ (to[1] = 7 /\ row >= 4))
            THEN LET drow == Abs(to[1] - row)
                     promotion_piece == promotion_piece_of(drow)
                 IN  IF promotion_piece = "panic" THEN Panic(g)
                     ELSE IF to \notin DOMAIN from_map THEN Panic(g)
                     ELSE LET i == FindPromotion(from_map[to], promotion_piece)
                          IN  IF i <= 0 THEN Panic(g)
                              ELSE refresh_board(
                                       play_move(g, is_server_, from_map[to][i]))
            ELSE [g EXCEPT !.selected_to = None, !.selected_from = None]
        ELSE IF g.selected_from # None /\ cords \in DOMAIN from_map THEN
            LET moves == from_map[cords]
            IN  IF Len(moves) > 1
                THEN [g EXCEPT !.selected_to = cords]
                ELSE refresh_board(board_play_move(g, moves[1]))
        ELSE IF /\ SquareColor(g.squares[row][col]) = get_curr_player(g.board)
                /\ g.selected_from # cords
             THEN [g EXCEPT !.selected_from = cords]
        ELSE [g EXCEPT !.selected_from = None]

(***************************************************************************)
(* The processes                                                           *)
(***************************************************************************)
\* No conversion function is called on its own.
NoCall == [fn |-> "none", arg |-> <<>>, state |-> "none", result |-> <<>>]

\* Both processes after Game::new and before Network::new, over the position
\* `start`.
GameInit(start) ==
    /\ server_color \in Colors
    /\ pc = [p \in Peers |-> IF p = Server THEN "handshake_read" ELSE "handshake_write"]
    /\ LET repr == BoardReprNew(start)
       IN  /\ board = [p \in Peers |-> start]
           /\ squares = [p \in Peers |-> repr.squares]
           /\ legal_moves = [p \in Peers |-> repr.legal_moves]
           /\ selected_from = [p \in Peers |-> repr.selected_from]
           /\ selected_to = [p \in Peers |-> repr.selected_to]
    /\ is_server = [p \in Peers |-> FALSE]    \* not read before handshake sets it
    /\ player_color = [p \in Peers |-> "unset"]
    /\ nonblocking = [p \in Peers |-> FALSE]
    /\ stream = [p \in Peers |-> <<>>]
    /\ last = Last("none", "new", NoMessage, <<>>, <<>>)

\* Game::new up to the call of network::handshake, for both peers, and the
\* client's choice of server_color.
Init ==
    /\ \E promoting \in Colors : GameInit(BoardDefault(promoting))
    /\ call = NoCall

\* The server arm's match on received.server_color: the color the client wants
\* the server to play.
server_player_color(requested) == IF requested = White THEN White ELSE Black

\* client_player_color without the inversion.
client_player_color_same(requested) == IF requested = White THEN White ELSE Black

\* The client arm's match on client_to_server_handshake.server_color: the
\* opposite color.
client_player_color(requested) == IF requested = White THEN Black ELSE White

GameUnchanged ==
    UNCHANGED <<board, squares, legal_moves, selected_from, selected_to>>

\* The server arm of handshake: from_reader::<ClientToServerHandshake>().unwrap()
\* on the blocking stream, then player_color.
ServerHandshakeRead ==
    /\ pc[Server] = "handshake_read"
    /\ stream[Server] # <<>>
    /\ LET received == Head(stream[Server])
       IN  /\ stream' = [stream EXCEPT ![Server] = Tail(@)]
           /\ last' = Last(Server, "handshake_read", received, <<>>, <<>>)
           /\ IF received.type = "ClientToServerHandshake"
              THEN /\ pc' = [pc EXCEPT ![Server] = "handshake_write"]
                   /\ is_server' = [is_server EXCEPT ![Server] = TRUE]
                   /\ player_color' = [player_color EXCEPT ![Server] =
                          server_player_color(received.server_color)]
              ELSE /\ pc' = [pc EXCEPT ![Server] = "fatal"]
                   /\ UNCHANGED <<is_server, player_color>>
    /\ GameUnchanged
    /\ UNCHANGED <<nonblocking, server_color, call>>

\* The server arm's to_writer(&stream, &server_to_client_handshake), taken
\* from one of the places `from`.  Game::new built the record from the
\* starting board before the call.
ServerHandshakeWriteFrom(from) ==
    /\ pc[Server] \in from
    /\ LET message == internal_to_server_handshake(squares[Server], board[Server])
       IN  /\ stream' = [stream EXCEPT ![Client] = Append(@, message)]
           /\ last' = Last(Server, "handshake_write", NoMessage, <<>>, <<message>>)
    /\ pc' = [pc EXCEPT ![Server] = "set_nonblocking"]
    /\ GameUnchanged
    /\ UNCHANGED <<is_server, player_color, nonblocking, server_color, call>>

\* The server writing its handshake without having read the client's.
ServerHandshakeWriteEarly ==
    ServerHandshakeWriteFrom({"handshake_read", "handshake_write"})

\* The server arm of handshake: the write follows the read.
ServerHandshakeWrite == ServerHandshakeWriteFrom({"handshake_write"})

\* The client arm of handshake: player_color, then to_writer.
ClientHandshakeWrite ==
    /\ pc[Client] = "handshake_write"
    /\ LET message == ClientToServerHandshake(server_color)
       IN  /\ is_server' = [is_server EXCEPT ![Client] = FALSE]
           /\ player_color' = [player_color EXCEPT ![Client] =
                  client_player_color(message.server_color)]
           /\ stream' = [stream EXCEPT ![Server] = Append(@, message)]
           /\ last' = Last(Client, "handshake_write", NoMessage, <<>>, <<message>>)
    /\ pc' = [pc EXCEPT ![Client] = "handshake_read"]
    /\ GameUnchanged
    /\ UNCHANGED <<nonblocking, server_color, call>>

\* The client arm of handshake: from_reader::<ServerToClientHandshake>().unwrap()
\* on the blocking stream.
ClientHandshakeRead ==
    /\ pc[Client] = "handshake_read"
    /\ stream[Client] # <<>>
    /\ LET received == Head(stream[Client])
       IN  /\ stream' = [stream EXCEPT ![Client] = Tail(@)]
           /\ last' = Last(Client, "handshake_read", received, <<>>, <<>>)
           /\ pc' = [pc EXCEPT ![Client] =
                  IF received.type = "ServerToClientHandshake"
                  THEN "set_nonblocking" ELSE "fatal"]
    /\ GameUnchanged
    /\ UNCHANGED <<is_server, player_color, nonblocking, server_color, call>>

\* stream.set_nonblocking(true) and the return of handshake into the event
\* loop, taken from one of the places `from`.
SetNonblockingFrom(p, from) ==
    /\ pc[p] \in from
    /\ nonblocking' = [nonblocking EXCEPT ![p] = TRUE]
    /\ pc' = [pc EXCEPT ![p] = IF pc[p] = "set_nonblocking" THEN "run" ELSE @]
    /\ last' = Last(p, "set_nonblocking", NoMessage, <<>>, <<>>)
    /\ GameUnchanged
    /\ UNCHANGED <<is_server, player_color, stream, server_color, call>>

\* set_nonblocking called before the match on the handshake as well.
SetNonblockingEarly(p) ==
    /\ ~(pc[p] = "handshake_read" /\ nonblocking[p])
    /\ SetNonblockingFrom(p, {"handshake_read", "set_nonblocking"})

\* The end of handshake: set_nonblocking follows the match (network.rs:69).
SetNonblocking(p) == SetNonblockingFrom(p, {"set_nonblocking"})

\* The end of a handler of peer p that ended in g, having taken `taken` records
\* from its own stream: the fields of Game, the records written, and the end of
\* the process when it panicked.
Commit(p, op, g, read, taken) ==
    /\ board' = [board EXCEPT ![p] = g.board]
    /\ squares' = [squares EXCEPT ![p] = g.squares]
    /\ legal_moves' = [legal_moves EXCEPT ![p] = g.legal_moves]
    /\ selected_from' = [selected_from EXCEPT ![p] = g.selected_from]
    /\ selected_to' = [selected_to EXCEPT ![p] = g.selected_to]
    /\ pc' = [pc EXCEPT ![p] = IF g.panicked THEN "fatal" ELSE @]
    /\ stream' = [q \in Peers |->
                    IF q = p THEN SubSeq(stream[p], taken + 1, Len(stream[p]))
                    ELSE stream[q] \o g.sent]
    /\ last' = IF taken > 0 \/ g.moved # <<>> \/ g.sent # <<>> \/ g.panicked
               THEN Last(p, op, read, g.moved, g.sent)
               ELSE last
    /\ UNCHANGED <<is_server, player_color, nonblocking, server_color, call>>

\* One tick of the event loop: EventHandler::update.
Update(p) ==
    /\ pc[p] = "run"
    /\ Commit(p, "update",
              update(GameOf(p), get_board_state_from(stream[p])),
              IF stream[p] = <<>> THEN NoMessage ELSE Head(stream[p]),
              IF stream[p] = <<>> THEN 0 ELSE 1)

\* The columns clicked: the two files the pieces stand on (a and h).  A click
\* on any other file is a click on an empty square that is no destination, as
\* are clicks on the empty squares of these files.
ClickCols == {0, 7}

\* One mouse click: EventHandler::mouse_button_down_event.
MouseButtonDown(p) ==
    /\ pc[p] = "run"
    /\ \E row \in Idx, col \in ClickCols :
          Commit(p, "mouse_button_down_event",
                 mouse_button_down_event(GameOf(p), is_server[p], row, col),
                 NoMessage, 0)

Next ==
    \/ ServerHandshakeRead
    \/ ServerHandshakeWrite
    \/ ClientHandshakeWrite
    \/ ClientHandshakeRead
    \/ \E p \in Peers : SetNonblocking(p)
    \/ \E p \in Peers : Update(p)
    \/ \E p \in Peers : MouseButtonDown(p)

Spec == Init /\ [][Next]_vars

(***************************************************************************)
(* The client against another server of the same protocol                  *)
(***************************************************************************)
\* The most records the other server has in flight to the client.
MaxPending == 2

\* ServerToClient::Error, Resigned and Draw; update reads none of their fields.
TerminalVariants == {"Error", "Resigned", "Draw"}
TerminalMessage(variant) == [type |-> variant]

\* The other server, its handshake done, writes one of the records this
\* program's server never writes.
OtherServerSends ==
    /\ pc[Server] = "run"
    /\ Len(stream[Client]) < MaxPending
    /\ \E variant \in TerminalVariants :
          stream' = [stream EXCEPT ![Client] = Append(@, TerminalMessage(variant))]
    /\ GameUnchanged
    /\ UNCHANGED <<pc, is_server, player_color, nonblocking, server_color, last, call>>

\* The other server takes the client's oldest ClientToServer::Move record and
\* accepts it: it answers with a State record whose move_made is that move.
\* update reads no other field of the record; board and moves carry the
\* position the sender of the move is in.
OtherServerEchoes ==
    /\ pc[Server] = "run"
    /\ stream[Server] # <<>>
    /\ Head(stream[Server]).type = "Move"
    /\ Len(stream[Client]) < MaxPending
    /\ stream' = [stream EXCEPT
                    ![Server] = Tail(@),
                    ![Client] = Append(@,
                        StateMessage(internal_to_network_board(squares[Client]),
                                     internal_to_network_moves(
                                         get_legal_moves(board[Client])),
                                     "Ongoing",
                                     Head(stream[Server]).move))]
    /\ GameUnchanged
    /\ UNCHANGED <<pc, is_server, player_color, nonblocking, server_color, last, call>>

\* The server's handshake is the protocol's and is the same in any server;
\* after it only the client runs this program's event loop.
OtherServerNext ==
    \/ ServerHandshakeRead
    \/ ServerHandshakeWrite
    \/ ClientHandshakeWrite
    \/ ClientHandshakeRead
    \/ \E p \in Peers : SetNonblocking(p)
    \/ OtherServerSends
    \/ OtherServerEchoes
    \/ Update(Client)
    \/ MouseButtonDown(Client)

OtherServerSpec == Init /\ [][OtherServerNext]_vars

\* Each process runs its handshake code to the end: a step that can be taken
\* is taken, and a blocking read returns once a record has arrived.
HandshakeFairness ==
    /\ WF_vars(ServerHandshakeRead)
    /\ WF_vars(ServerHandshakeWrite)
    /\ WF_vars(ClientHandshakeWrite)
    /\ WF_vars(ClientHandshakeRead)
    /\ \A p \in Peers : WF_vars(SetNonblocking(p))

LiveSpec == Spec /\ HandshakeFairness

(***************************************************************************)
(* The conversion functions, each called on its own                        *)
(***************************************************************************)
\* The longest list of moves, not taken from a position, given to parse_moves.
MaxMoves == 3

SeqToSet(seq) == {seq[i] : i \in 1..Len(seq)}
RankChars == SubSeq(DigitChars, 1, 8)
SquareNames == SeqToSet(FileChars) \X SeqToSet(RankChars)

\* The letters of the promotion match, and other fifth characters.
PromotionChars == {"R", "r", "B", "b", "N", "n", "Q", "q"}
OtherChars == {"K", "k", "P", "p", "x"}

\* What Move::to_algebraic_notation can hand to internal_to_network_move:
\* every from/to pair without a fifth character, and the last-rank steps with
\* one.
Notations ==
    {<<a[1], a[2], b[1], b[2]>> : a \in SquareNames, b \in SquareNames}
    \cup {<<f, r[1], f, r[2], l>> :
             f \in SeqToSet(FileChars),
             r \in {<<"7", "8">>, <<"2", "1">>},
             l \in PromotionChars \cup OtherChars}

\* Positions of up to two pawns, either side to move.
PawnSquares == (1..6) \X {0, 3, 4, 7}
Positions ==
    {[grid |-> [[EmptyGrid EXCEPT ![a[1]][a[2]] = "P"] EXCEPT ![b[1]][b[2]] = ch],
      turn |-> t] :
        a \in PawnSquares, b \in PawnSquares, ch \in {"P", "p"}, t \in Colors}

\* Boards of one piece of any kind on any square.
PieceKinds == {"Pawn", "Bishop", "Rook", "Knight", "Queen", "King"}
Boards ==
    {[EmptySquares EXCEPT ![sq[1]][sq[2]] = Piece(kind, color)] :
        sq \in Idx \X Idx, kind \in PieceKinds, color \in Colors}

\* Moves of other shapes than the pawn steps: two destinations of one square,
\* two promotion squares of one pawn, a knight.
OtherMoves ==
    {EngineMove(<<6, 4>>, <<5, 4>>, "None", White),
     EngineMove(<<6, 4>>, <<4, 4>>, "None", White),
     EngineMove(<<1, 0>>, <<0, 0>>, "Queen", White),
     EngineMove(<<1, 0>>, <<0, 0>>, "Knight", White),
     EngineMove(<<1, 0>>, <<0, 1>>, "Queen", White),
     EngineMove(<<7, 6>>, <<5, 5>>, "None", White)}

\* The lists of distinct moves of OtherMoves, up to MaxMoves long, and the
\* legal-move lists of Positions.
MoveLists ==
    {l \in UNION {[1..n -> OtherMoves] : n \in 1..MaxMoves} :
        \A i, j \in DOMAIN l : i # j => l[i] # l[j]}
    \cup {get_legal_moves(pos) : pos \in Positions}

Call(fn, arg) == [fn |-> fn, arg |-> arg, state |-> "called", result |-> <<>>]

ProcessesUnchanged ==
    UNCHANGED <<pc, board, squares, legal_moves, selected_from, selected_to,
                is_server, player_color, nonblocking, stream, server_color, last>>

CodecInit ==
    /\ server_color = White
    /\ GameInit(BoardDefault(White))
    /\ \/ \E c \in SeqToSet(FileChars) \cup SeqToSet(RankChars) :
             call = Call("to_cordinate", c)
       \/ \E notation \in Notations : call = Call("internal_to_network_move", notation)
       \/ \E internal \in Boards : call = Call("internal_to_network_board", internal)
       \/ \E moves \in MoveLists : call = Call("parse_moves", moves)
       \/ \E pos \in Positions : call = Call("internal_to_server_handshake", pos)

Returns(value) == call' = [call EXCEPT !.state = "returned", !.result = <<value>>]

CallToCordinate ==
    /\ call.fn = "to_cordinate"
    /\ call.state = "called"
    /\ Returns(to_cordinate(call.arg))
    /\ ProcessesUnchanged

\* internal_to_network_move on a move of the notation call.arg; the panic of
\* the promotion match leaves no result.
CallInternalToNetworkMove ==
    /\ call.fn = "internal_to_network_move"
    /\ call.state = "called"
    /\ LET wire == notation_to_network_move(call.arg)
       IN  IF wire.promotion = "panic"
           THEN call' = [call EXCEPT !.state = "panicked"]
           ELSE Returns(wire)
    /\ ProcessesUnchanged

CallInternalToNetworkBoard ==
    /\ call.fn = "internal_to_network_board"
    /\ call.state = "called"
    /\ Returns(internal_to_network_board(call.arg))
    /\ ProcessesUnchanged

CallParseMoves ==
    /\ call.fn = "parse_moves"
    /\ call.state = "called"
    /\ Returns(parse_moves(call.arg))
    /\ ProcessesUnchanged

\* The wire board and the wire moves of one position, as Game::new builds
\* them for the server: the squares are parse_fen of the position's FEN.
CallInternalToServerHandshake ==
    /\ call.fn = "internal_to_server_handshake"
    /\ call.state = "called"
    /\ Returns(internal_to_server_handshake(parse_fen(to_fen(call.arg)).squares,
                                            call.arg))
    /\ ProcessesUnchanged

CodecNext ==
    \/ CallToCordinate
    \/ CallInternalToNetworkMove
    \/ CallInternalToNetworkBoard
    \/ CallParseMoves
    \/ CallInternalToServerHandshake

CodecSpec == CodecInit /\ [][CodecNext]_vars

(***************************************************************************)
(* Properties                                                              *)
(***************************************************************************)
HandshakeDone(p) == nonblocking[p]
Running(p) == pc[p] = "run"
Opposite(color) == IF color = White THEN Black ELSE White

\* The board snapshot and the legal-move index of a position.
SnapshotOf(board_) == parse_fen(to_fen(board_)).squares
LegalIndexOf(board_) == parse_moves(get_legal_moves(board_))

\* The last effective handler run was a click of p that played a move.
ConfirmedMove(p) ==
    /\ last.peer = p
    /\ last.op = "mouse_button_down_event"
    /\ last.moved # <<>>

\* C1: after the handshake, whenever every record written has been read and
\* processed and no peer has stopped with a fatal error, the server's board and
\* the client's board are the same position.
C1_PeersAgree ==
    (/\ Running(Server) /\ Running(Client)
     /\ stream[Server] = <<>> /\ stream[Client] = <<>>)
    => board[Server] = board[Client]

\* C2: every move confirmed by a click on the server, plain or promotion, is
\* followed by exactly one State record written to the stream, carrying the
\* wire board and wire legal moves of the position after the move and the wire
\* form of the move as move_made.
C2_ServerMoveSendsState ==
    ConfirmedMove(Server) =>
        /\ Len(last.sent) = 1
        /\ last.sent[1].type = "State"
        /\ last.sent[1].board = internal_to_network_board(SnapshotOf(board[Server]))
        /\ last.sent[1].moves = internal_to_network_moves(get_legal_moves(board[Server]))
        /\ last.sent[1].move_made = internal_to_network_move(last.moved[1])

\* C3: every move confirmed by a click on the client, plain or promotion, is
\* followed by exactly one ClientToServer Move record written to the stream,
\* carrying the wire form of the move.
C3_ClientMoveSendsMove ==
    ConfirmedMove(Client) =>
        last.sent = <<MoveMessage(internal_to_network_move(last.moved[1]))>>

\* C4: the client's board changes only in an update tick that processes a
\* State record: a click on the client never changes the client's board.
C4_ClientBoardOnlyByState ==
    [][board'[Client] # board[Client]
        => (/\ last'.peer = Client
            /\ last'.op = "update"
            /\ last'.read.type = "State")]_vars

\* The step is an update tick of p that takes the oldest record of its stream.
ReadsRecord(p) ==
    /\ Running(p)
    /\ stream[p] # <<>>
    /\ stream'[p] = Tail(stream[p])
    /\ last'.peer = p
    /\ last'.op = "update"

\* C5: when the server reads a ClientToServer Move record that is the wire form
\* of a legal move of its position, it plays the first such legal move,
\* rebuilds its snapshot and index, and writes a State record whose move_made
\* is that move.
C5_ServerAcceptsLegalMove ==
    [][(/\ ReadsRecord(Server)
        /\ Head(stream[Server]).type = "Move"
        /\ FirstMatch(get_legal_moves(board[Server]), Head(stream[Server]).move) # 0)
       => LET legal == get_legal_moves(board[Server])
              mv == legal[FirstMatch(legal, Head(stream[Server]).move)]
          IN  /\ board'[Server] = EnginePlayMove(board[Server], mv).board
              /\ squares'[Server] = SnapshotOf(board'[Server])
              /\ legal_moves'[Server] = LegalIndexOf(board'[Server])
              /\ Len(last'.sent) = 1
              /\ last'.sent[1].type = "State"
              /\ last'.sent[1].move_made = internal_to_network_move(mv)]_vars

\* The wire move a record carries: move_made of a State, the move of a Move.
CarriesMove(message) == message.type \in {"State", "Move"}
WireMoveOf(message) ==
    IF message.type = "State" THEN message.move_made ELSE message.move

\* C6: when a peer reads a record whose wire move is the wire form of no legal
\* move of its position, the tick ends in a fatal error with the board, the
\* snapshot, the index and the selection as before the read and nothing
\* written.
C6_IllegalMoveIsFatal ==
    [][\A p \in Peers :
        (/\ ReadsRecord(p)
         /\ CarriesMove(Head(stream[p]))
         /\ FirstMatch(get_legal_moves(board[p]), WireMoveOf(Head(stream[p]))) = 0)
        => /\ pc'[p] = "fatal"
           /\ board'[p] = board[p]
           /\ squares'[p] = squares[p]
           /\ legal_moves'[p] = legal_moves[p]
           /\ selected_from'[p] = selected_from[p]
           /\ selected_to'[p] = selected_to[p]
           /\ last'.sent = <<>>
           /\ stream'[Other(p)] = stream[Other(p)]]_vars

\* C7: when the client's update tick reads a State record whose move_made is
\* the wire form of a legal move of the client's position, the client's board
\* becomes the position reached by playing exactly that move once, and its
\* snapshot and index are those of the new position.
C7_ClientAppliesStateMove ==
    [][(/\ ReadsRecord(Client)
        /\ Head(stream[Client]).type = "State")
       => \A i \in 1..Len(get_legal_moves(board[Client])) :
            LET mv == get_legal_moves(board[Client])[i]
            IN  internal_to_network_move(mv) = Head(stream[Client]).move_made
                => /\ board'[Client] = EnginePlayMove(board[Client], mv).board
                   /\ last'.moved = <<mv>>
                   /\ squares'[Client] = SnapshotOf(board'[Client])
                   /\ legal_moves'[Client] = LegalIndexOf(board'[Client])]_vars

\* The client has just applied the move of a State record.
C7_Witness ==
    /\ last.peer = Client
    /\ last.op = "update"
    /\ last.read.type = "State"
    /\ Len(last.moved) = 1
    /\ get_promoted_type(last.moved[1]) = "Knight"
    /\ Running(Client)

\* C8: after the handshake the server's player_color is the server_color the
\* client sent and the client's is the opposite color, so the two differ.
C8_HandshakeColors ==
    /\ HandshakeDone(Server) => player_color[Server] = server_color
    /\ HandshakeDone(Client) => player_color[Client] = Opposite(server_color)
    /\ (HandshakeDone(Server) /\ HandshakeDone(Client))
        => (/\ player_color[Server] \in Colors
            /\ player_color[Client] \in Colors
            /\ player_color[Server] # player_color[Client])

\* Both peers are through the handshake, the client having asked the server to
\* play White.
C8_Witness ==
    /\ HandshakeDone(Server)
    /\ HandshakeDone(Client)
    /\ server_color = White

\* C9: the ServerToClientHandshake record the server writes has joever Ongoing.
C9_HandshakeOngoing ==
    (last.peer = Server /\ last.op = "handshake_write")
    => (/\ last.sent[1].type = "ServerToClientHandshake"
        /\ last.sent[1].joever = "Ongoing")

\* The ClientToServerHandshake has been written / read, the
\* ServerToClientHandshake has been written / read.
ClientWrote == player_color[Client] # "unset"
ServerRead == player_color[Server] # "unset"
ServerWrote == pc[Server] \notin {"handshake_read", "handshake_write"}
ClientRead == pc[Client] \notin {"handshake_write", "handshake_read"}

HandshakeExchanged(p) ==
    IF p = Server THEN ServerRead /\ ServerWrote ELSE ClientWrote /\ ClientRead

\* The step is a handshake read of p.
HandshakeReadStep(p) ==
    /\ pc[p] = "handshake_read"
    /\ last'.peer = p
    /\ last'.op = "handshake_read"

\* The step is a call of set_nonblocking by p.
SetNonblockingStep(p) ==
    /\ last'.peer = p
    /\ last'.op = "set_nonblocking"
    /\ (last # last' \/ pc[p] # pc'[p] \/ nonblocking[p] # nonblocking'[p])

\* C11: in both roles the stream is switched to non-blocking mode exactly once,
\* and only after that peer's handshake read and write have both completed; no
\* handshake read is performed on a non-blocking stream.
C11_NonblockingOnceAfterHandshake ==
    /\ [][\A p \in Peers :
            SetNonblockingStep(p)
            => (~nonblocking[p] /\ nonblocking'[p] /\ HandshakeExchanged(p))]_vars
    /\ [][\A p \in Peers : nonblocking[p] => nonblocking'[p]]_vars
    /\ [][\A p \in Peers : nonblocking'[p] # nonblocking[p] => SetNonblockingStep(p)]_vars
    /\ [][\A p \in Peers : HandshakeReadStep(p) => ~nonblocking[p]]_vars
    /\ <>(\A p \in Peers : nonblocking[p])

\* Both streams have been switched, the client's last.
C11_Witness ==
    /\ nonblocking[Server]
    /\ nonblocking[Client]
    /\ last.peer = Client
    /\ last.op = "set_nonblocking"

(***************************************************************************)
(* Properties of the conversion functions                                  *)
(***************************************************************************)
Returned(fn) == call.fn = fn /\ call.state = "returned"
Ended(fn) == call.fn = fn /\ call.state \in {"returned", "panicked"}

\* C12: for the notation e2e4 internal_to_network_move yields start_x = 4,
\* start_y = 6, end_x = 4, end_y = 4 and promotion None.
C12_E2E4 ==
    (Ended("internal_to_network_move") /\ call.arg = <<"e", "2", "e", "4">>)
    => /\ call.state = "returned"
       /\ call.result[1] = [start_x |-> 4, start_y |-> 6, end_x |-> 4,
                            end_y |-> 4, promotion |-> "None"]

\* C13: for every legal move of every position, the wire move addresses, in the
\* wire board of the same position, the square of the moving piece: the entry
\* at row start_y, column start_x is the piece that moves (not None), and row
\* end_y, column end_x is the move's destination.
C13_WireMoveAddressesPiece ==
    Returned("internal_to_server_handshake")
    => LET legal == get_legal_moves(call.arg)
           wire == call.result[1]
       IN  \A i \in 1..Len(legal) :
              LET mv == wire.moves[i]
                  mover == IF get_curr_player(call.arg) = White
                           THEN "WhitePawn" ELSE "BlackPawn"
              IN  /\ wire.board[mv.start_y][mv.start_x] = mover
                  /\ mv.start_y = 7 - legal[i].from[1]
                  /\ mv.start_x = legal[i].from[2]
                  /\ mv.end_y = 7 - legal[i].to[1]
                  /\ mv.end_x = legal[i].to[2]

\* The piece a promotion letter names: the kind by the letter, as in FEN, and
\* the color by its case.
PieceOfLetter(c) ==
    Piece(CASE to_lowercase(c) = "r" -> "Rook"
            [] to_lowercase(c) = "b" -> "Bishop"
            [] to_lowercase(c) = "n" -> "Knight"
            [] to_lowercase(c) = "q" -> "Queen",
          IF is_uppercase(c) THEN White ELSE Black)

\* C14: internal_to_network_move sets promotion from the notation alone: None
\* for 4 characters; for 5 characters the piece named by the last one, White
\* for R, B, N, Q and Black for r, b, n, q; any other fifth character is fatal
\* and no wire move is produced.
C14_PromotionFromNotation ==
    Ended("internal_to_network_move")
    => LET notation == call.arg IN
       /\ Len(notation) = 4
          => (call.state = "returned" /\ call.result[1].promotion = "None")
       /\ (Len(notation) = 5 /\ notation[5] \in PromotionChars)
          => /\ call.state = "returned"
             /\ call.result[1].promotion
                   = internal_to_network_piece(PieceOfLetter(notation[5]))
             /\ call.result[1].promotion # "None"
       /\ (Len(notation) = 5 /\ notation[5] \notin PromotionChars)
          => (call.state = "panicked" /\ call.result = <<>>)

\* A black promotion has been converted.
C14_Witness ==
    /\ Returned("internal_to_network_move")
    /\ Len(call.arg) = 5
    /\ call.arg[5] = "n"
    /\ call.result[1].promotion = "BlackKnight"

FlipRows(wire) == [r \in Idx |-> wire[7 - r]]

\* C15: internal_to_network_board puts the wire form of the internal square
\* (r, c) at wire (7 - r, c) for every r and c, and the row flip is an
\* involution: flipping the result again returns every piece to its row.
C15_BoardFlip ==
    Returned("internal_to_network_board")
    => LET internal == call.arg
           wire == call.result[1]
       IN  /\ \A r \in Idx, c \in Idx :
                 wire[7 - r][c] = internal_to_network_piece(internal[r][c])
           /\ FlipRows(FlipRows(wire)) = wire
           /\ \A r \in Idx, c \in Idx :
                 FlipRows(wire)[r][c] = internal_to_network_piece(internal[r][c])

\* A board with a black queen on internal row 1 has been converted.
C15_Witness ==
    /\ Returned("internal_to_network_board")
    /\ call.arg[1][3] = Piece("Queen", Black)
    /\ call.result[1][6][3] = "BlackQueen"

\* C16: to_cordinate is a bijection from 'a'..'h' onto 0..7 (a to 0, h to 7)
\* and from '1'..'8' onto 0..7 ('1' to 7, '8' to 0).
C16_ToCordinateBijection ==
    Returned("to_cordinate")
    => /\ call.result[1] = IF IsIn(FileChars, call.arg)
                           THEN IndexOf(FileChars, call.arg) - 1
                           ELSE 8 - IndexOf(RankChars, call.arg)
       /\ \A chars \in {SeqToSet(FileChars), SeqToSet(RankChars)} :
             /\ {to_cordinate(c) : c \in chars} = Idx
             /\ \A a, b \in chars : to_cordinate(a) = to_cordinate(b) => a = b

\* The rank digit 8 has been converted.
C16_Witness ==
    /\ Returned("to_cordinate")
    /\ call.arg = "8"
    /\ call.result[1] = 0

\* The places of the index: <<r, c, to, k>> for the k-th candidate of the list
\* of from-square (r, c) and to-square `to`.
Places(index) ==
    UNION {UNION {{<<r, c, to, k>> : k \in 1..Len(index[r][c][to])} :
                     to \in DOMAIN index[r][c]} :
              r \in Idx, c \in Idx}

\* C17: parse_moves puts every move of the list in exactly one candidate list,
\* the one keyed by its own from and to squares, in list order; the lists
\* together hold as many moves as the list and, in wire form, the same set.
C17_ParseMovesPartition ==
    Returned("parse_moves")
    => LET moves == call.arg
           index == call.result[1]
           Keyed(from, to) ==
               LET Test(m) == m.from = from /\ m.to = to
               IN  SelectSeq(moves, Test)
       IN  /\ \A r \in Idx, c \in Idx : \A to \in DOMAIN index[r][c] :
                 /\ index[r][c][to] = Keyed(<<r, c>>, to)
                 /\ index[r][c][to] # <<>>
           /\ \A i \in 1..Len(moves) :
                 moves[i].to \in DOMAIN index[moves[i].from[1]][moves[i].from[2]]
           /\ Cardinality(Places(index)) = Len(moves)
           /\ {internal_to_network_move(index[pl[1]][pl[2]][pl[3]][pl[4]]) :
                  pl \in Places(index)}
              = {internal_to_network_move(moves[i]) : i \in 1..Len(moves)}

\* A list with the four promotions of one pawn and the move of another has
\* been indexed.
C17_Witness ==
    /\ Returned("parse_moves")
    /\ Len(call.arg) = 5
    /\ \E pl \in Places(call.result[1]) : pl[4] = 4

(***************************************************************************)
(* Properties of the update tick                                           *)
(***************************************************************************)
\* The fields of p's Game are left as they are.
GameKept(p) ==
    /\ board'[p] = board[p]
    /\ squares'[p] = squares[p]
    /\ legal_moves'[p] = legal_moves[p]
    /\ selected_from'[p] = selected_from[p]
    /\ selected_to'[p] = selected_to[p]

\* The oldest record of p's stream does not deserialize as a ServerToClient.
DecodeFails(p) ==
    /\ stream[p] # <<>>
    /\ Head(stream[p]).type \notin ServerToClientVariants

\* C18: a non-blocking read that finds a malformed or partial message gives the
\* caller a result different from that of a read that finds no data: a decode
\* failure is not reported as 'no message'.
C18_DecodeFailureDistinct ==
    \A p \in Peers :
        (Running(p) /\ DecodeFails(p))
        => get_board_state_from(stream[p]) # get_board_state_from(<<>>)

\* C19: an update tick performs at most one read and never blocks; when no
\* message is available the tick is not an error, leaves board, snapshot,
\* index and selection unchanged and sends nothing.
C19_IdleTick ==
    /\ [][\A p \in Peers :
            (Running(p) /\ stream[p] = <<>>) => ENABLED Update(p)]_vars
    /\ [][\A p \in Peers :
            (Running(p) /\ Len(stream'[p]) < Len(stream[p]))
            => stream'[p] = Tail(stream[p])]_vars
    /\ [][\A p \in Peers :
            (stream[p] = <<>> /\ Update(p))
            => /\ pc'[p] = pc[p]
               /\ GameKept(p)
               /\ stream' = stream]_vars

\* The client, a square and a destination selected, has no message to read.
C19_Witness ==
    /\ Running(Client)
    /\ stream[Client] = <<>>
    /\ selected_from[Client] # None
    /\ selected_to[Client] # None

\* The tick of p reads one of Error, Resigned and Draw.
ReadsTerminal(p) ==
    /\ Update(p)
    /\ stream[p] # <<>>
    /\ Head(stream[p]).type \in TerminalVariants

\* C20: when an update tick reads Error, Resigned or Draw the peer updates its
\* recorded game outcome (some field of the peer other than board, snapshot,
\* index and selection changes) and changes nothing else: board, snapshot,
\* index and selection stay and nothing is sent.
C20_TerminalRecordsSetOutcome ==
    [][\A p \in Peers :
          ReadsTerminal(p)
          => /\ GameKept(p)
             /\ stream'[Other(p)] = stream[Other(p)]
             /\ <<is_server'[p], player_color'[p], nonblocking'[p], pc'[p]>>
                   # <<is_server[p], player_color[p], nonblocking[p], pc[p]>>]_vars

\* What the empty arms of update do: the tick takes the record from the stream
\* and changes nothing; board, snapshot, index and selection stay, nothing is
\* sent, the peer runs on, and no field of the peer records the outcome.
C20_TerminalRecordsIgnored ==
    [][\A p \in Peers :
          ReadsTerminal(p)
          => /\ GameKept(p)
             /\ stream'[Other(p)] = stream[Other(p)]
             /\ stream'[p] = Tail(stream[p])
             /\ <<is_server'[p], player_color'[p], nonblocking'[p], pc'[p]>>
                   = <<is_server[p], player_color[p], nonblocking[p], pc[p]>>]_vars

\* The client, a square and a destination selected, has just read a Resigned.
C20_Witness ==
    /\ last.peer = Client
    /\ last.op = "update"
    /\ last.read.type = "Resigned"
    /\ Running(Client)
    /\ selected_to[Client] # None

(***************************************************************************)
(* Properties of the board representation and the selection                *)
(***************************************************************************)
\* The snapshot and the index of p are those of its engine board.
Refreshed(p) ==
    /\ squares[p] = parse_fen(to_fen(board[p])).squares
    /\ legal_moves[p] = parse_moves(get_legal_moves(board[p]))

\* C21: after every event handler, on either peer, the board snapshot is the
\* parse of the engine board's position and the legal-move index is
\* parse_moves of the engine's legal moves; every handler run that applies a
\* move ends with selected_from and selected_to both empty.
C21_RefreshedAfterHandlers ==
    /\ [](\A p \in Peers : Refreshed(p))
    /\ [][\A p \in Peers :
            board'[p] # board[p]
            => (selected_from'[p] = None /\ selected_to'[p] = None)]_vars

\* A peer that had selected a square has played a plain move by a click and
\* stands refreshed on the new position.
C21_Witness ==
    /\ last.op = "mouse_button_down_event"
    /\ Len(last.moved) = 1
    /\ last.moved[1].promoted = "None"
    /\ \E p \in Peers :
          /\ last.peer = p
          /\ Refreshed(p)
          /\ board[p].grid[last.moved[1].to[1]][last.moved[1].to[2]] # "."
          /\ selected_from[p] = None

\* C22: after the handshake a peer's clicks only play moves of that peer's
\* own negotiated color: no click applies, or sends, a move for the color the
\* other peer plays.
C22_ClicksPlayOwnColor ==
    \A p \in Peers :
        ConfirmedMove(p)
        => \A i \in 1..Len(last.moved) : last.moved[i].color = player_color[p]

\* The tick of the client reads a State record whose move_made is the wire
\* form of the move the client's last click played: the echo of its own move.
ReadsOwnEcho ==
    /\ Running(Client)
    /\ stream[Client] # <<>>
    /\ Head(stream[Client]).type = "State"
    /\ ConfirmedMove(Client)
    /\ Head(stream[Client]).move_made = internal_to_network_move(last.moved[1])
    /\ last'.peer = Client
    /\ last'.op = "update"
    /\ stream'[Client] = Tail(stream[Client])

\* C23: a move the client proposed is applied to the client's board exactly
\* once: when the State record echoing the client's own promotion move
\* arrives, the client's tick neither ends in the 'no matching move' fatal
\* error nor applies a second move on top of the one already played.
C23_EchoAppliedOnce ==
    [][ReadsOwnEcho
        => (/\ pc'[Client] = "run"
            /\ board'[Client] = board[Client])]_vars

\* The client has read a State record that echoes a promotion it played.
C23_Witness ==
    /\ last.peer = Client
    /\ last.op = "update"
    /\ last.read.type = "State"
    /\ last.read.move_made.promotion # "None"

\* The candidates the index of p holds for its selection; <<>> when the index
\* has no entry for it.
SelectedCandidates(p) ==
    LET from == selected_from[p]
        to == selected_to[p]
    IN  IF from = None \/ to = None THEN <<>>
        ELSE IF to \in DOMAIN legal_moves[p][from[1]][from[2]]
             THEN legal_moves[p][from[1]][from[2]][to]
             ELSE <<>>

\* C24: in every reachable state, under any interleaving of clicks and update
\* ticks: if selected_to is set then selected_from is set and the index at
\* selected_from has an entry for selected_to with more than one candidate;
\* if selected_from is set then the snapshot at that square holds a piece of
\* the side to move.  Hence no click ends in a failed index lookup or a failed
\* move_to_be_made assertion.
C24_SelectionWellFormed ==
    /\ [](\A p \in Peers :
            /\ selected_to[p] # None
               => (selected_from[p] # None /\ Len(SelectedCandidates(p)) > 1)
            /\ selected_from[p] # None
               => SquareColor(squares[p][selected_from[p][1]][selected_from[p][2]])
                     = get_curr_player(board[p]))
    /\ [][\A p \in Peers :
            (last'.peer = p /\ last'.op = "mouse_button_down_event")
            => pc'[p] = pc[p]]_vars

\* A peer has a promotion pending: both squares selected, four candidates.
C24_Witness ==
    \E p \in Peers :
        /\ Running(p)
        /\ selected_from[p] # None
        /\ selected_to[p] # None
        /\ Len(SelectedCandidates(p)) = 4

\* The step changes the selection of p.
SelectionChanges(p) ==
    selected_from'[p] # selected_from[p] \/ selected_to'[p] # selected_to[p]

\* The step is the click of p on (row, col).
ClickAt(p, row, col) ==
    /\ pc[p] = "run"
    /\ Commit(p, "mouse_button_down_event",
              mouse_button_down_event(GameOf(p), is_server[p], row, col),
              NoMessage, 0)

\* C25: while a promotion choice is pending (selected_to set), a click in the
\* same column within the four rows starting at the promotion row plays the
\* candidate whose promoted type is Queen, Knight, Rook, Bishop for row
\* distance 0, 1, 2, 3 from the promotion row; any other click plays no move,
\* sends nothing and clears both selected_from and selected_to.
C25_PromotionChoice ==
    [][\A p \in Peers : \A row \in Idx, col \in ClickCols :
          (/\ selected_to[p] # None
           /\ SelectionChanges(p) \/ pc'[p] # pc[p]
           /\ ClickAt(p, row, col))
          => LET to == selected_to[p]
                 distance == IF to[1] = 0 THEN row ELSE to[1] - row
             IN  IF col = to[2] /\ distance \in 0..3
                 THEN /\ last'.peer = p
                      /\ last'.op = "mouse_button_down_event"
                      /\ Len(last'.moved) = 1
                      /\ last'.moved[1].from = selected_from[p]
                      /\ last'.moved[1].to = to
                      /\ last'.moved[1].promoted
                            = <<"Queen", "Knight", "Rook", "Bishop">>[distance + 1]
                      /\ board'[p] = EnginePlayMove(board[p], last'.moved[1]).board
                      /\ board'[p] # board[p]
                 ELSE /\ board'[p] = board[p]
                      /\ stream' = stream
                      /\ pc' = pc
                      /\ selected_from'[p] = None
                      /\ selected_to'[p] = None]_vars

\* A click three rows from Black's promotion row has played a bishop.
C25_Witness ==
    /\ last.op = "mouse_button_down_event"
    /\ Len(last.moved) = 1
    /\ last.moved[1].promoted = "Bishop"
    /\ last.moved[1].color = Black
    /\ board[last.peer].grid[7][7] = "b"

====
